---- MODULE Spec2Model ----
(***************************************************************************)
(* Graph finalisation and execution engine: GraphManager (finalize_graph,  *)
(* execute_graph, invalidate_graph) over the detail:: execution helpers.   *)
(*                                                                         *)
(* Every GraphManager call is one action.  The calls a handler makes on    *)
(* its collaborators (backends, tensor handles, accessors, tasks, memory   *)
(* groups, the pass manager, the graph context) are recorded, in program   *)
(* order, in the variable log, which holds the calls of the last handler.  *)
(***************************************************************************)
EXTENDS Integers, Sequences, FiniteSets, TLC

\* Every node list of at most MaxNodes entries is a graph of the model, next
\* to the longer graphs of LongGraphs.
MaxNodes == 1

\* Largest number of memory-manager contexts held by the graph context.
MaxGroups == 1

\* graph.id() of the two graphs handed to the manager.
GraphIds == {"A", "B"}

Targets == {"NEON", "CL", "UNSPECIFIED"}

(***************************************************************************)
(* Error messages.                                                         *)
(***************************************************************************)
NoError       == "ok"
ErrDuplicate  == "Graph is already registered!"
ErrUnknown    == "Graph is not registered!"
ErrNoBackend  == "Requested backend doesn't exist!"
ErrValidation == "validate_node: status.error_description()"
ErrNoTasks    == "Could not configure all nodes!"
ErrNoHandle   == "Tensor handle is not configured!"
ErrNullTensor == "call_tensor_accessor: !tensor"
ErrTaskRun    == "task.task->run() raised"

(***************************************************************************)
(* Graphs.  A node list entry is a null pointer or a node with a type; for *)
(* a node the model keeps what its backend answers: whether a backend is   *)
(* registered for its assigned target, whether validate_node accepts it    *)
(* and whether configure_node returns a function.                          *)
(***************************************************************************)
NullNode    == [type |-> "nullptr", backend |-> TRUE,  valid |-> TRUE,  func |-> FALSE]
InputNode   == [type |-> "Input",   backend |-> TRUE,  valid |-> TRUE,  func |-> FALSE]
OutputNode  == [type |-> "Output",  backend |-> TRUE,  valid |-> TRUE,  func |-> FALSE]
ConstNode   == [type |-> "Const",   backend |-> TRUE,  valid |-> TRUE,  func |-> FALSE]
FuncNode    == [type |-> "Compute", backend |-> TRUE,  valid |-> TRUE,  func |-> TRUE]
NoFuncNode  == [type |-> "Compute", backend |-> TRUE,  valid |-> TRUE,  func |-> FALSE]
InvalidNode == [type |-> "Compute", backend |-> TRUE,  valid |-> FALSE, func |-> TRUE]
NoBackendNode == [type |-> "Compute", backend |-> FALSE, valid |-> TRUE, func |-> TRUE]

NodeKinds == {NullNode, InputNode, OutputNode, ConstNode, FuncNode, NoFuncNode,
              InvalidNode, NoBackendNode}

SeqsUpTo(S, n) == UNION {[1..k -> S] : k \in 0..n}

\* Longer graphs that are enumerated one by one.
LongGraphs ==
    { <<InputNode, OutputNode>>,
      <<InputNode, FuncNode>>,
      <<FuncNode, OutputNode>>,
      <<ConstNode, FuncNode>>,
      <<FuncNode, FuncNode>>,
      <<InputNode, NoFuncNode, OutputNode>>,
      <<InputNode, FuncNode, OutputNode>>,
      <<InputNode, OutputNode, FuncNode>>,
      <<ConstNode, FuncNode, OutputNode>>,
      <<FuncNode, ConstNode, OutputNode>>,
      <<ConstNode, FuncNode, FuncNode>>,
      <<InputNode, OutputNode, InputNode, FuncNode, OutputNode>>,
      <<InputNode, NullNode, FuncNode>>,
      <<OutputNode, FuncNode, OutputNode>>,
      <<FuncNode, InvalidNode, OutputNode>>,
      <<FuncNode, NoBackendNode, OutputNode>>,
      <<InputNode, ConstNode, FuncNode, OutputNode>>,
      <<InputNode, FuncNode, FuncNode, OutputNode>>,
      <<FuncNode, OutputNode, FuncNode, OutputNode>> }

NodeLists == SeqsUpTo(NodeKinds, MaxNodes) \cup LongGraphs

\* memory_managers(): per entry, whether cross_group is configured (non-null).
Contexts ==
    [use_transition_memory_manager : BOOLEAN,
     memory_managers : SeqsUpTo(BOOLEAN, MaxGroups)]

Max(S) == CHOOSE x \in S : \A y \in S : y <= x

IsNode(g, i) == g.nodes[i].type # "nullptr"

IsProducer(n) == n.type \in {"Input", "Const", "Compute"}

IsConsumer(n) == n.type \in {"Output", "Compute"}

\* node->output(0): the tensor the node writes, 0 for a null pointer.
\* The tensor written by node i has index i in g.tensors().
output0(g, i) == IF IsProducer(g.nodes[i]) THEN i ELSE 0

\* node->input(0): the tensor of the nearest producer before the node.
input0(g, i) ==
    IF IsConsumer(g.nodes[i])
    THEN Max({0} \cup {j \in 1..(i - 1) : IsProducer(g.nodes[j])})
    ELSE 0

\* g.tensors()[t] is non-null.
IsTensor(g, t) == IsProducer(g.nodes[t])

\* !tensor->bound_edges().empty(): some node reads the tensor.
HasBoundEdges(g, t) == \E i \in 1..Len(g.nodes) : input0(g, i) = t

VARIABLES
    nodes,      \* the node list of the graphs handed to the manager
    ctx,        \* the GraphContext handed to the manager
    workloads,  \* GraphManager::_workloads, graph id -> workload or NoWorkload
    lastCall,   \* the last GraphManager call: operation, graph id, inputs, error
    log,        \* the collaborator calls made by the last call, in order
    invalidated \* the graph ids that invalidate_graph has erased so far

vars == <<nodes, ctx, workloads, lastCall, log, invalidated>>

NoWorkload == [registered |-> FALSE]

Graph(id) == [id |-> id, nodes |-> nodes]

Ev(e, i) == [e |-> e, i |-> i]

(***************************************************************************)
(* A handler in progress: the calls made so far, the error raised (if      *)
(* any), the tensors' handles, the workload under construction and the     *)
(* manager's table.                                                        *)
(***************************************************************************)
Start(tbl) ==
    [log |-> <<>>, err |-> NoError, handle |-> [t \in 1..0 |-> FALSE],
     tasks |-> <<>>, inputs |-> <<>>, outputs |-> <<>>, tbl |-> tbl]

Failed(acc) == acc.err # NoError

Raise(acc, msg) == [acc EXCEPT !.err = msg]

Call(acc, e, i) == [acc EXCEPT !.log = Append(@, Ev(e, i))]

\* Tensors that handle()->allocate() has been called on so far.
Allocated(acc) == {acc.log[k].i : k \in {k \in 1..Len(acc.log) : acc.log[k].e = "allocate"}}

(***************************************************************************)
(* detail::configure_all_tensors.  env.fault names what the backend of     *)
(* tensor env.at does: "no_backend" (find_backend returns null) or         *)
(* "null_handle" (create_tensor returns a null handle).  The check after   *)
(* create_tensor tests the backend, which is non-null there, so it never   *)
(* raises and the handle is stored as returned.                            *)
(***************************************************************************)
RECURSIVE configure_tensors_from(_, _, _, _)
configure_tensors_from(g, env, t, acc) ==
    IF t > Len(g.nodes) \/ Failed(acc) THEN acc
    ELSE IF ~IsTensor(g, t) THEN configure_tensors_from(g, env, t + 1, acc)
    ELSE IF env.fault = "no_backend" /\ env.at = t THEN Raise(acc, ErrNoBackend)
    ELSE LET handle == ~(env.fault = "null_handle" /\ env.at = t)
             backend == TRUE
             made == Call(acc, "create_tensor", t)
         IN  IF ~backend THEN Raise(made, "Couldn't create backend handle!")
             ELSE configure_tensors_from(g, env, t + 1,
                      [made EXCEPT !.handle[t] = handle])

configure_all_tensors(g, env, acc) ==
    configure_tensors_from(g, env, 1,
        [acc EXCEPT !.handle = [t \in 1..Len(g.nodes) |-> FALSE]])

(***************************************************************************)
(* detail::validate_all_nodes                                              *)
(***************************************************************************)
RECURSIVE validate_nodes_from(_, _, _)
validate_nodes_from(g, i, acc) ==
    IF i > Len(g.nodes) \/ Failed(acc) THEN acc
    ELSE IF ~IsNode(g, i) THEN validate_nodes_from(g, i + 1, acc)
    ELSE IF ~g.nodes[i].backend THEN Raise(acc, ErrNoBackend)
    ELSE LET asked == Call(acc, "validate_node", i)
         IN  IF ~g.nodes[i].valid THEN Raise(asked, ErrValidation)
             ELSE validate_nodes_from(g, i + 1, asked)

validate_all_nodes(g, acc) == validate_nodes_from(g, 1, acc)

(***************************************************************************)
(* detail::configure_all_nodes: the task list, then inputs and outputs.    *)
(***************************************************************************)
\* Variant: the new task is put in front of the list.
push_task_front(tasks, i) == <<i>> \o tasks

\* workload.tasks.push_back(task), the task standing for node i
push_task(tasks, i) == Append(tasks, i)

RECURSIVE create_tasks_from(_, _, _)
create_tasks_from(g, i, acc) ==
    IF i > Len(g.nodes) \/ Failed(acc) THEN acc
    ELSE IF ~IsNode(g, i) THEN create_tasks_from(g, i + 1, acc)
    ELSE IF ~g.nodes[i].backend THEN Raise(acc, ErrNoBackend)
    ELSE LET asked == Call(acc, "configure_node", i)
         IN  create_tasks_from(g, i + 1,
                 IF g.nodes[i].func
                 THEN [asked EXCEPT !.tasks = push_task(@, i)]
                 ELSE asked)

\* Variant: the Input node's input slot is taken.
InputTensorWrongSlot(g, i) == input0(g, i)

\* The tensor an Input node adds to workload.inputs.
InputTensor(g, i) == output0(g, i)

\* The tensor an Output node adds to workload.outputs.
OutputTensor(g, i) == input0(g, i)

RECURSIVE add_inputs_outputs_from(_, _, _)
add_inputs_outputs_from(g, i, acc) ==
    IF i > Len(g.nodes) \/ Failed(acc) THEN acc
    ELSE LET n == g.nodes[i]
             withIn == IF IsNode(g, i) /\ n.type = "Input"
                       THEN [acc EXCEPT !.inputs = Append(@, InputTensor(g, i))]
                       ELSE acc
             withOut == IF IsNode(g, i) /\ n.type = "Output"
                        THEN [withIn EXCEPT !.outputs = Append(@, OutputTensor(g, i))]
                        ELSE withIn
         IN  add_inputs_outputs_from(g, i + 1, withOut)

configure_all_nodes(g, acc) ==
    add_inputs_outputs_from(g, 1,
        create_tasks_from(g, 1,
            [acc EXCEPT !.tasks = <<>>, !.inputs = <<>>, !.outputs = <<>>]))

(***************************************************************************)
(* detail::allocate_const_tensors and its two helpers.  Every node has at  *)
(* most one input and one output slot.                                     *)
(***************************************************************************)
allocate_tensor(g, t, acc) ==
    IF t # 0 /\ HasBoundEdges(g, t)
    THEN IF ~acc.handle[t] THEN Raise(acc, ErrNoHandle)
         ELSE Call(acc, "allocate", t)
    ELSE acc

\* Variant: the input tensors of a node are left unallocated.
allocate_no_input_tensors(g, i, acc) == acc

allocate_all_input_tensors(g, i, acc) == allocate_tensor(g, input0(g, i), acc)

allocate_all_output_tensors(g, i, acc) == allocate_tensor(g, output0(g, i), acc)

RECURSIVE allocate_const_from(_, _, _)
allocate_const_from(g, i, acc) ==
    IF i > Len(g.nodes) \/ Failed(acc) THEN acc
    ELSE IF ~IsNode(g, i) THEN allocate_const_from(g, i + 1, acc)
    ELSE allocate_const_from(g, i + 1,
             CASE g.nodes[i].type \in {"Const", "Input"} ->
                      allocate_all_output_tensors(g, i, acc)
               [] g.nodes[i].type = "Output" ->
                      allocate_all_input_tensors(g, i, acc)
               [] OTHER -> acc)

allocate_const_tensors(g, acc) == allocate_const_from(g, 1, acc)

(***************************************************************************)
(* detail::allocate_all_tensors.  A handle is resizable until allocate()   *)
(* has been called on it; is_used() holds of every tensor.                 *)
(***************************************************************************)
RECURSIVE allocate_all_from(_, _, _)
allocate_all_from(g, t, acc) ==
    IF t > Len(g.nodes) THEN acc
    ELSE allocate_all_from(g, t + 1,
             IF IsTensor(g, t) /\ HasBoundEdges(g, t) /\ acc.handle[t]
                /\ t \notin Allocated(acc)
             THEN Call(acc, "allocate", t)
             ELSE acc)

allocate_all_tensors(g, acc) == allocate_all_from(g, 1, acc)

(***************************************************************************)
(* detail::release_unused_tensors                                          *)
(***************************************************************************)
RECURSIVE release_unused_from(_, _, _)
release_unused_from(g, t, acc) ==
    IF t > Len(g.nodes) THEN acc
    ELSE release_unused_from(g, t + 1,
             IF IsTensor(g, t) /\ acc.handle[t]
             THEN Call(acc, "release_if_unused", t)
             ELSE acc)

release_unused_tensors(g, acc) == release_unused_from(g, 1, acc)

(***************************************************************************)
(* detail::call_tensor_accessor, detail::call_all_const_node_accessors     *)
(***************************************************************************)
call_tensor_accessor(t, acc) ==
    IF t = 0 THEN Raise(acc, ErrNullTensor) ELSE Call(acc, "const_accessor", t)

RECURSIVE const_accessors_from(_, _, _)
const_accessors_from(g, i, acc) ==
    IF i > Len(g.nodes) \/ Failed(acc) THEN acc
    ELSE const_accessors_from(g, i + 1,
             IF IsNode(g, i) /\ g.nodes[i].type = "Const"
             THEN call_tensor_accessor(output0(g, i), acc)
             ELSE acc)

call_all_const_node_accessors(g, acc) == const_accessors_from(g, 1, acc)

(***************************************************************************)
(* ExecutionTask::prepare, detail::prepare_all_tasks                       *)
(***************************************************************************)
RECURSIVE prepare_from(_, _, _)
prepare_from(g, k, acc) ==
    IF k > Len(acc.tasks) THEN acc
    ELSE prepare_from(g, k + 1,
             release_unused_tensors(g, Call(acc, "prepare", acc.tasks[k])))

prepare_all_tasks(g, acc) == prepare_from(g, 1, acc)

(***************************************************************************)
(* detail::call_all_input_node_accessors, call_all_output_node_accessors   *)
(***************************************************************************)
RECURSIVE accessors_from(_, _, _, _)
accessors_from(e, tensors, k, acc) ==
    IF k > Len(tensors) \/ Failed(acc) THEN acc
    ELSE accessors_from(e, tensors, k + 1,
             IF tensors[k] # 0 THEN Call(acc, e, tensors[k]) ELSE acc)

call_all_input_node_accessors(workload, acc) ==
    accessors_from("input_accessor", workload.inputs, 1, acc)

call_all_output_node_accessors(workload, acc) ==
    accessors_from("output_accessor", workload.outputs, 1, acc)

(***************************************************************************)
(* detail::call_all_tasks.  ExecutionTask::operator() runs the task's      *)
(* function through the TaskExecutor; env.throwAt names the position in    *)
(* the task list of the task whose run() raises (0: none does).            *)
(***************************************************************************)
RECURSIVE groups_from(_, _, _, _)
groups_from(e, mm, k, acc) ==
    IF k > Len(mm) \/ Failed(acc) THEN acc
    ELSE groups_from(e, mm, k + 1, IF mm[k] THEN Call(acc, e, k) ELSE acc)

execute_task(workload, k, env, acc) ==
    LET ran == Call(acc, "run", workload.tasks[k])
    IN  IF env.throwAt = k THEN Raise(ran, ErrTaskRun) ELSE ran

RECURSIVE tasks_from(_, _, _, _)
tasks_from(workload, k, env, acc) ==
    IF k > Len(workload.tasks) \/ Failed(acc) THEN acc
    ELSE tasks_from(workload, k + 1, env, execute_task(workload, k, env, acc))

\* Variant: the transition buffers are never released.
call_all_tasks_no_release(workload, env, acc) ==
    tasks_from(workload, 1, env,
        groups_from("acquire", workload.ctx.memory_managers, 1, acc))

call_all_tasks(workload, env, acc) ==
    groups_from("release", workload.ctx.memory_managers, 1,
        tasks_from(workload, 1, env,
            groups_from("acquire", workload.ctx.memory_managers, 1, acc)))

(***************************************************************************)
(* Target resolution of finalize_graph: the requested target when it is    *)
(* supported, the default target otherwise.                                *)
(***************************************************************************)
is_target_supported(target) == target \in {"NEON", "CL"}

get_default_target == "NEON"

ForcedTarget(target) == IF is_target_supported(target) THEN target ELSE get_default_target

(***************************************************************************)
(* GraphManager::execute_graph                                             *)
(***************************************************************************)
\* Variant: an unknown graph is taken for a graph with nothing to run.
execute_graph_unchecked(g, env, acc) ==
    LET it == acc.tbl[g.id]
    IN  IF ~it.registered THEN acc
        ELSE call_all_output_node_accessors(it,
                 call_all_tasks(it, env,
                     call_all_input_node_accessors(it, acc)))

\* Variant: the outputs are pushed before the tasks have run.
execute_graph_outputs_first(g, env, acc) ==
    LET it == acc.tbl[g.id]
    IN  IF ~it.registered THEN Raise(acc, ErrUnknown)
        ELSE call_all_tasks(it, env,
                 call_all_output_node_accessors(it,
                     call_all_input_node_accessors(it, acc)))

execute_graph(g, env, acc) ==
    LET it == acc.tbl[g.id]
    IN  IF ~it.registered THEN Raise(acc, ErrUnknown)
        ELSE call_all_output_node_accessors(it,
                 call_all_tasks(it, env,
                     call_all_input_node_accessors(it, acc)))

(***************************************************************************)
(* GraphManager::finalize_graph                                            *)
(***************************************************************************)
\* Each step of finalize_graph runs only when no earlier step has raised.
\* Variant: the pass manager is run a second time.
RunPassesTwice(g, acc) ==
    IF Failed(acc) THEN acc ELSE Call(Call(acc, "run_all", 0), "run_all", 0)

RunPasses(g, acc) == IF Failed(acc) THEN acc ELSE Call(acc, "run_all", 0)

\* Variant: the nodes go to configuration unvalidated.
ValidateNodesSkipped(g, acc) == acc

ValidateNodes(g, acc) == IF Failed(acc) THEN acc ELSE validate_all_nodes(g, acc)

ConfigureNodes(g, acc) == IF Failed(acc) THEN acc ELSE configure_all_nodes(g, acc)

\* Variant: an empty task list is accepted.
CheckTasksSkipped(acc) == acc

CheckTasks(acc) ==
    IF Failed(acc) THEN acc
    ELSE IF acc.tasks = <<>> THEN Raise(acc, ErrNoTasks)
    ELSE acc

AllocateConsts(g, acc) == IF Failed(acc) THEN acc ELSE allocate_const_tensors(g, acc)

\* Variant: the constant tensors are never filled.
CallConstAccessorsSkipped(g, acc) == acc

CallConstAccessors(g, acc) ==
    IF Failed(acc) THEN acc ELSE call_all_const_node_accessors(g, acc)

\* Variant: the tasks are prepared on every target.
PrepareGraphAlways(g, forced_target, acc) ==
    IF Failed(acc) THEN acc ELSE prepare_all_tasks(g, acc)

PrepareGraph(g, forced_target, acc) ==
    IF Failed(acc) THEN acc
    ELSE IF forced_target = "CL" THEN prepare_all_tasks(g, acc)
    ELSE acc

SetupTensorMemory(g, c, acc) ==
    IF Failed(acc) THEN acc
    ELSE IF c.use_transition_memory_manager
    THEN Call(acc, "configure_transition_manager", 0)
    ELSE allocate_all_tensors(g, acc)

\* Variant: the context is left open.
FinalizeContextSkipped(g, acc) == acc

FinalizeContext(g, acc) == IF Failed(acc) THEN acc ELSE Call(acc, "ctx_finalize", 0)

RegisterGraph(g, c, acc) ==
    IF Failed(acc) THEN acc
    ELSE Call([acc EXCEPT !.tbl[g.id] =
                   [registered |-> TRUE, tasks |-> acc.tasks, inputs |-> acc.inputs,
                    outputs |-> acc.outputs, ctx |-> c]],
              "register", 0)

ReleaseAfterRun(g, acc) == IF Failed(acc) THEN acc ELSE release_unused_tensors(g, acc)

\* Variant: the first run is made on every target.
FirstRunAlways(g, forced_target, env, acc) ==
    IF Failed(acc) THEN acc
    ELSE ReleaseAfterRun(g, execute_graph(g, env, acc))

FirstRun(g, forced_target, env, acc) ==
    IF Failed(acc) THEN acc
    ELSE IF forced_target # "CL" THEN ReleaseAfterRun(g, execute_graph(g, env, acc))
    ELSE acc

\* finalize_graph past the registration check.
FinalizeSteps(g, c, target, env, acc) ==
    FirstRun(g, ForcedTarget(target), env,
     RegisterGraph(g, c,
      FinalizeContext(g,
       SetupTensorMemory(g, c,
        PrepareGraph(g, ForcedTarget(target),
         CallConstAccessors(g,
          AllocateConsts(g,
           CheckTasks(
            ConfigureNodes(g,
             ValidateNodes(g,
              RunPasses(g,
               configure_all_tensors(g, env, acc))))))))))))

\* Variant: no registration check.
finalize_graph_unchecked(g, c, target, env, acc) == FinalizeSteps(g, c, target, env, acc)

\* Variant: an id that was invalidated once stays taken.
finalize_graph_ledger(g, c, target, env, acc) ==
    IF acc.tbl[g.id].registered \/ g.id \in invalidated THEN Raise(acc, ErrDuplicate)
    ELSE FinalizeSteps(g, c, target, env, acc)

finalize_graph(g, c, target, env, acc) ==
    IF acc.tbl[g.id].registered THEN Raise(acc, ErrDuplicate)
    ELSE FinalizeSteps(g, c, target, env, acc)

(***************************************************************************)
(* GraphManager::invalidate_graph                                          *)
(***************************************************************************)
\* Variant: the entry is found but not erased.
invalidate_graph_no_erase(g, acc) ==
    IF ~acc.tbl[g.id].registered THEN Raise(acc, ErrUnknown) ELSE acc

\* Variant: the whole table is cleared.
invalidate_graph_clear(g, acc) ==
    IF ~acc.tbl[g.id].registered THEN Raise(acc, ErrUnknown)
    ELSE [acc EXCEPT !.tbl = [id \in GraphIds |-> NoWorkload]]

invalidate_graph(g, acc) ==
    IF ~acc.tbl[g.id].registered THEN Raise(acc, ErrUnknown)
    ELSE [acc EXCEPT !.tbl[g.id] = NoWorkload]

(***************************************************************************)
(* The calls on the manager.                                               *)
(***************************************************************************)
\* What the collaborators do during one call: env.fault = "null_handle" or
\* "no_backend" for the tensor env.at, and env.throwAt for the position of the
\* task whose run() raises.  One call meets at most one of them.
Env(fault, at, throwAt) == [fault |-> fault, at |-> at, throwAt |-> throwAt]

NoFault == Env("none", 0, 0)

\* The tasks of the graph, counted as configure_node would produce them.
NumFuncs(g) == Cardinality({i \in 1..Len(g.nodes) : IsNode(g, i) /\ g.nodes[i].func})

ThrowingTasks(g) == {Env("none", 0, k) : k \in 1..NumFuncs(g)}

TensorFaults(g) ==
    {Env(f, t, 0) : f \in {"null_handle", "no_backend"},
                    t \in {t \in 1..Len(g.nodes) : IsTensor(g, t)}}

Returned(op, id, target, env, acc) ==
    /\ workloads' = acc.tbl
    /\ log' = acc.log
    /\ lastCall' = [op |-> op, id |-> id, target |-> target, env |-> env,
                    found |-> workloads[id].registered, err |-> acc.err]
    /\ invalidated' = IF op = "invalidate" /\ acc.err = NoError
                      THEN invalidated \cup {id}
                      ELSE invalidated
    /\ UNCHANGED <<nodes, ctx>>

Finalize(id, target, env) ==
    Returned("finalize", id, ForcedTarget(target), env,
             finalize_graph(Graph(id), ctx, target, env, Start(workloads)))

Execute(id, env) ==
    Returned("execute", id, "none", env,
             execute_graph(Graph(id), env, Start(workloads)))

Invalidate(id) ==
    Returned("invalidate", id, "none", NoFault,
             invalidate_graph(Graph(id), Start(workloads)))

Init ==
    /\ nodes \in NodeLists
    /\ ctx \in Contexts
    /\ workloads = [id \in GraphIds |-> NoWorkload]
    /\ lastCall = [op |-> "none", id |-> "none", target |-> "none",
                   env |-> NoFault, found |-> FALSE, err |-> NoError]
    /\ log = <<>>
    /\ invalidated = {}

FinalizeCall ==
    \E id \in GraphIds, target \in Targets :
        \E env \in {NoFault} \cup TensorFaults(Graph(id)) \cup ThrowingTasks(Graph(id)) :
            Finalize(id, target, env)

ExecuteCall ==
    \E id \in GraphIds :
        \E env \in {NoFault} \cup ThrowingTasks(Graph(id)) : Execute(id, env)

InvalidateCall == \E id \in GraphIds : Invalidate(id)

Next == FinalizeCall \/ ExecuteCall \/ InvalidateCall

Spec == Init /\ [][Next]_vars

(***************************************************************************)
(* Vocabulary of the properties.                                           *)
(***************************************************************************)
Min(S) == CHOOSE x \in S : \A y \in S : x <= y

RECURSIVE Ascending(_)
Ascending(S) == IF S = {} THEN <<>> ELSE <<Min(S)>> \o Ascending(S \ {Min(S)})

At(s, e) == {k \in 1..Len(s) : s[k].e = e}

AtArg(s, e, i) == {k \in 1..Len(s) : s[k] = Ev(e, i)}

\* The arguments of the calls of kind e in s, in call order.
ArgsOf(s, e) == [k \in 1..Cardinality(At(s, e)) |-> s[Ascending(At(s, e))[k]].i]

NonNull(tensors) == {k \in 1..Len(tensors) : tensors[k] # 0}

Registered(id) == workloads[id].registered

TheGraph == Graph(lastCall.id)

NodesWhere(g, P(_)) == {i \in 1..Len(g.nodes) : IsNode(g, i) /\ P(g.nodes[i])}

HasFunc(n) == n.func

IsInput(n) == n.type = "Input"

IsOutput(n) == n.type = "Output"

Rejected(n) == ~n.backend \/ ~n.valid

\* No backend and no validation rejects a node, and some node yields a task.
Compiles(g) == NodesWhere(g, Rejected) = {} /\ NodesWhere(g, HasFunc) # {}

\* The call went past the table lookup and ran the workload: an execute of a
\* registered graph, or a finalize that reached its first run.
RanWorkload ==
    \/ lastCall.op = "execute" /\ lastCall.found
    \/ lastCall.op = "finalize" /\ At(log, "register") # {} /\ lastCall.target # "CL"

\* The calls made by that run.
RunLog ==
    IF lastCall.op = "finalize"
    THEN SubSeq(log, Max(At(log, "register")) + 1, Len(log))
    ELSE log

Phase(e) ==
    CASE e = "input_accessor" -> 1
      [] e = "acquire" -> 2
      [] e = "run" -> 3
      [] e = "release" -> 4
      [] e = "output_accessor" -> 5
      [] OTHER -> 6

ConfiguredGroups(c) == {k \in 1..Len(c.memory_managers) : c.memory_managers[k]}

(***************************************************************************)
(* C1: a finalize on an id that is not registered is never rejected as a   *)
(* duplicate, registers a workload under that id when it succeeds, and     *)
(* succeeds for every graph that compiles when no collaborator fails; a    *)
(* finalize on an id that is registered fails with "Graph is already       *)
(* registered!", calls no collaborator and leaves the id registered.       *)
(***************************************************************************)
C1_DuplicateFinalize ==
    lastCall.op = "finalize" =>
        /\ lastCall.found =>
              /\ lastCall.err = ErrDuplicate
              /\ log = <<>>
              /\ Registered(lastCall.id)
        /\ ~lastCall.found =>
              /\ lastCall.err # ErrDuplicate
              /\ lastCall.err = NoError => Registered(lastCall.id)
              /\ Compiles(TheGraph) /\ lastCall.env = NoFault => lastCall.err = NoError

C1_Witness ==
    /\ lastCall.op = "finalize"
    /\ lastCall.found
    /\ lastCall.err = ErrDuplicate
    /\ lastCall.id \notin invalidated

(***************************************************************************)
(* C2: execute on an id that is not registered (never finalized, or        *)
(* invalidated since) fails with "Graph is not registered!" and calls no   *)
(* accessor, memory group or task.                                         *)
(***************************************************************************)
C2_ExecuteUnknown ==
    lastCall.op = "execute" /\ ~lastCall.found =>
        /\ lastCall.err = ErrUnknown
        /\ log = <<>>
        /\ ~Registered(lastCall.id)

C2_Witness ==
    /\ lastCall.op = "execute"
    /\ ~lastCall.found
    /\ lastCall.id \in invalidated
    /\ lastCall.err = ErrUnknown

(***************************************************************************)
(* C3: invalidate on a registered id succeeds and erases its entry, and    *)
(* an execute that follows on that id fails with "Graph is not             *)
(* registered!"; invalidate on an id that is not registered fails with     *)
(* that error; no invalidate touches another entry, and a failed one       *)
(* leaves the table as it was.                                             *)
(***************************************************************************)
C3_InvalidateStep ==
    /\ lastCall'.op = "invalidate" =>
          /\ lastCall'.found = Registered(lastCall'.id)
          /\ lastCall'.found => lastCall'.err = NoError
          /\ ~lastCall'.found => lastCall'.err = ErrUnknown /\ workloads' = workloads
          /\ ~workloads'[lastCall'.id].registered
          /\ \A id \in GraphIds \ {lastCall'.id} : workloads'[id] = workloads[id]
    /\ /\ lastCall.op = "invalidate"
       /\ lastCall'.op = "execute"
       /\ lastCall'.id = lastCall.id
       => lastCall'.err = ErrUnknown /\ log' = <<>>

C3_Invalidate == [][C3_InvalidateStep]_vars

C3_Witness ==
    /\ lastCall.op = "invalidate"
    /\ lastCall.found
    /\ lastCall.err = NoError
    /\ ~Registered(lastCall.id)
    /\ \E id \in GraphIds : Registered(id)

(***************************************************************************)
(* C4: a finalize on an id that was invalidated and is not registered is   *)
(* not rejected as a duplicate and registers a workload again (it succeeds *)
(* whenever the graph compiles and no collaborator fails); an execute on   *)
(* the id registered again passes the lookup and succeeds unless a task    *)
(* raises.                                                                 *)
(***************************************************************************)
C4_Refinalize ==
    lastCall.id \in invalidated =>
        /\ lastCall.op = "finalize" /\ ~lastCall.found =>
              /\ lastCall.err # ErrDuplicate
              /\ lastCall.err = NoError => Registered(lastCall.id)
              /\ Compiles(TheGraph) /\ lastCall.env = NoFault =>
                    lastCall.err = NoError /\ Registered(lastCall.id)
        /\ lastCall.op = "execute" /\ lastCall.found =>
              /\ lastCall.err # ErrUnknown
              /\ lastCall.env = NoFault => lastCall.err = NoError

C4_Witness ==
    /\ lastCall.id \in invalidated
    /\ lastCall.op = "execute"
    /\ lastCall.found
    /\ lastCall.err = NoError
    /\ At(log, "run") # {}

(***************************************************************************)
(* C5: a finalize that ends with an error leaves its graph id              *)
(* unregistered (the id was not registered when the call began).           *)
(***************************************************************************)
C5_FailedFinalizeNotRegistered ==
    lastCall.op = "finalize" /\ ~lastCall.found /\ lastCall.err # NoError =>
        ~Registered(lastCall.id)

(***************************************************************************)
(* C6: every run of a registered workload calls its collaborators in the   *)
(* order input accessors, acquire, tasks, release, output accessors: no    *)
(* call of a later phase precedes a call of an earlier one.  A run that    *)
(* returns normally has called the accessor of every non-null input and    *)
(* output, acquired and released every configured group and run every      *)
(* task; a run cut short by a raising task has released no group and       *)
(* called no output accessor.                                              *)
(***************************************************************************)
C6_PhaseOrder ==
    RanWorkload =>
        LET x == RunLog
            w == workloads[lastCall.id]
            n(e) == Cardinality(At(x, e))
        IN  /\ \A j, k \in 1..Len(x) : j < k => Phase(x[j].e) <= Phase(x[k].e)
            /\ n("input_accessor") = Cardinality(NonNull(w.inputs))
            /\ n("acquire") = Cardinality(ConfiguredGroups(w.ctx))
            /\ lastCall.err = NoError =>
                  /\ n("run") = Len(w.tasks)
                  /\ n("release") = Cardinality(ConfiguredGroups(w.ctx))
                  /\ n("output_accessor") = Cardinality(NonNull(w.outputs))
            /\ lastCall.err # NoError =>
                  /\ lastCall.err = ErrTaskRun
                  /\ n("release") = 0
                  /\ n("output_accessor") = 0

C6_Witness ==
    /\ lastCall.op = "execute"
    /\ lastCall.err = NoError
    /\ \A e \in {"input_accessor", "acquire", "run", "release", "output_accessor"} :
          At(log, e) # {}

(***************************************************************************)
(* C7: the task list of a registered workload holds the nodes whose        *)
(* configure_node returned a function, once each, in node-list order; a    *)
(* run of the workload runs exactly that sequence (up to the task that     *)
(* raises, when one does) and leaves the workload registered.              *)
(***************************************************************************)
C7_TaskSequence ==
    /\ \A id \in GraphIds :
          Registered(id) =>
              workloads[id].tasks = Ascending(NodesWhere(Graph(id), HasFunc))
    /\ RanWorkload =>
          LET w == workloads[lastCall.id]
              runs == ArgsOf(RunLog, "run")
          IN  /\ Registered(lastCall.id)
              /\ lastCall.err = NoError => runs = w.tasks
              /\ lastCall.err # NoError => runs = SubSeq(w.tasks, 1, lastCall.env.throwAt)

C7_Witness ==
    /\ lastCall.op = "execute"
    /\ lastCall.err = NoError
    /\ Len(workloads[lastCall.id].tasks) >= 2
    /\ ArgsOf(log, "run") = workloads[lastCall.id].tasks
    /\ Len(workloads[lastCall.id].tasks) < Cardinality(NodesWhere(TheGraph, LAMBDA n : TRUE))

(***************************************************************************)
(* C8: the inputs of a registered workload are output tensor 0 of the      *)
(* Input nodes and its outputs are input tensor 0 of the Output nodes,     *)
(* each in node-list order, one entry per such node.                       *)
(***************************************************************************)
C8_InputsOutputs ==
    \A id \in GraphIds :
        Registered(id) =>
            LET g == Graph(id)
                ins == Ascending(NodesWhere(g, IsInput))
                outs == Ascending(NodesWhere(g, IsOutput))
            IN  /\ workloads[id].inputs = [k \in 1..Len(ins) |-> output0(g, ins[k])]
                /\ workloads[id].outputs = [k \in 1..Len(outs) |-> input0(g, outs[k])]

C8_Witness ==
    \E id \in GraphIds :
        /\ Registered(id)
        /\ Len(workloads[id].inputs) = 2
        /\ workloads[id].inputs[1] < workloads[id].inputs[2]
        /\ Len(workloads[id].outputs) = 2
        /\ workloads[id].outputs[1] < workloads[id].outputs[2]
        /\ workloads[id].outputs[2] \notin {workloads[id].inputs[k] : k \in 1..2}

(***************************************************************************)
(* C9: in every run of a registered workload each configured memory group  *)
(* is acquired exactly once, before any task runs, and no group that is    *)
(* not configured is acquired or released; no task runs after a release;   *)
(* a run that returns normally has released each configured group exactly  *)
(* once, after the last task.                                              *)
(***************************************************************************)
C9_GroupBracket ==
    RanWorkload =>
        LET x == RunLog
            G == ConfiguredGroups(workloads[lastCall.id].ctx)
        IN  /\ \A k \in G : Cardinality(AtArg(x, "acquire", k)) = 1
            /\ \A j \in At(x, "acquire") \cup At(x, "release") : x[j].i \in G
            /\ \A a \in At(x, "acquire"), r \in At(x, "run") : a < r
            /\ \A r \in At(x, "run"), d \in At(x, "release") : r < d
            /\ \A k \in G : Cardinality(AtArg(x, "release", k)) <= 1
            /\ lastCall.err = NoError =>
                  \A k \in G :
                      /\ Cardinality(AtArg(x, "release", k)) = 1
                      /\ \A a \in AtArg(x, "acquire", k), d \in AtArg(x, "release", k) : a < d

C9_Witness ==
    /\ RanWorkload
    /\ lastCall.err = NoError
    /\ At(RunLog, "acquire") # {}
    /\ Cardinality(At(RunLog, "run")) >= 2
    /\ At(RunLog, "release") # {}

(***************************************************************************)
(* C10: a graph none of whose nodes yields a task is never registered: a   *)
(* finalize of it on an unregistered id fails (with "Could not configure   *)
(* all nodes!" when no backend is missing), before any allocation, sealing *)
(* or registration, and an execute on it fails with "Graph is not          *)
(* registered!" without acquiring or releasing a memory group.             *)
(***************************************************************************)
ZeroTasks(g) == NodesWhere(g, HasFunc) = {}

C10_ZeroTasksRejected ==
    ZeroTasks(Graph("A")) =>
        /\ \A id \in GraphIds : ~Registered(id)
        /\ lastCall.op = "finalize" =>
              /\ lastCall.err # NoError
              /\ NodesWhere(TheGraph, Rejected) = {} /\ lastCall.env.fault # "no_backend"
                    => lastCall.err = ErrNoTasks
              /\ \A e \in {"allocate", "const_accessor", "ctx_finalize", "register",
                           "acquire", "run", "release"} : At(log, e) = {}
        /\ lastCall.op = "execute" => lastCall.err = ErrUnknown /\ log = <<>>

C10_Witness ==
    /\ ZeroTasks(TheGraph)
    /\ lastCall.op = "finalize"
    /\ lastCall.err = ErrNoTasks
    /\ Cardinality(At(log, "configure_node")) >= 2
    /\ ConfiguredGroups(ctx) # {}

\* C10 as first stated: a graph that compiles to zero tasks can be finalized.
C10_ZeroTasksFinalize ==
    /\ lastCall.op = "finalize"
    /\ ~lastCall.found
    /\ ZeroTasks(TheGraph)
    /\ NodesWhere(TheGraph, Rejected) = {}
    /\ lastCall.env = NoFault
    => lastCall.err = NoError /\ Registered(lastCall.id)

(***************************************************************************)
(* Vocabulary of the finalize steps.                                       *)
(***************************************************************************)
IsConst(n) == n.type = "Const"

IsConstOrInput(n) == n.type \in {"Const", "Input"}

\* The output tensors of the nodes of g that satisfy P.
OutputsOf(g, P(_)) == {output0(g, i) : i \in NodesWhere(g, P)} \ {0}

\* The input tensors of the nodes of g that satisfy P.
InputsOf(g, P(_)) == {input0(g, i) : i \in NodesWhere(g, P)} \ {0}

\* The calls of s on the accessor of tensor t, whatever the caller.
AccessorCalls(s, t) ==
    AtArg(s, "const_accessor", t) \cup AtArg(s, "input_accessor", t)
        \cup AtArg(s, "output_accessor", t)

\* The last finalize went past the registration check.
Finalizing == lastCall.op = "finalize" /\ ~lastCall.found

\* The part of a finalize's log that precedes the first run.
BuildLog ==
    IF At(log, "register") = {} THEN log
    ELSE SubSeq(log, 1, Max(At(log, "register")))

(***************************************************************************)
(* C11: a finalize that goes on to seal the context has called the         *)
(* accessor of every Const node's output tensor exactly once before the    *)
(* workload is registered, after every configure_node and every allocate   *)
(* of a Const or Input output tensor and before every prepare() and run(); *)
(* no finalize calls it more than once.  A run of the workload calls the   *)
(* accessor of a constant tensor only when that tensor is the input of an  *)
(* Output node.                                                            *)
(***************************************************************************)
C11_ConstAccessors ==
    LET g == TheGraph
        consts == OutputsOf(g, IsConst)
    IN  /\ Finalizing =>
              \A t \in consts :
                  /\ Cardinality(AtArg(log, "const_accessor", t)) <= 1
                  /\ At(log, "ctx_finalize") # {} =>
                        Cardinality(AccessorCalls(BuildLog, t)) = 1
                  /\ \A c \in AtArg(log, "const_accessor", t) :
                        /\ \A k \in At(log, "configure_node") : k < c
                        /\ \A k \in At(log, "allocate") :
                              log[k].i \in OutputsOf(g, IsConstOrInput) => k < c
                        /\ \A k \in At(log, "prepare") \cup At(log, "run") : c < k
        /\ Finalizing => \A k \in At(log, "const_accessor") : log[k].i \in consts
        /\ RanWorkload =>
              /\ At(RunLog, "const_accessor") = {}
              /\ \A t \in consts \ InputsOf(g, IsOutput) : AccessorCalls(RunLog, t) = {}

C11_Witness ==
    /\ Finalizing
    /\ lastCall.err = NoError
    /\ lastCall.target = "CL"
    /\ At(log, "const_accessor") # {}
    /\ At(log, "allocate") # {}
    /\ At(log, "prepare") # {}

\* C11 as first stated: no run of the workload calls the accessor of a
\* constant tensor.
C11_NoConstAccessorInRun ==
    RanWorkload => \A t \in OutputsOf(TheGraph, IsConst) : AccessorCalls(RunLog, t) = {}

\* The tensors of g that got a backend handle in the last call.
WithHandle(g) ==
    {t \in 1..Len(g.nodes) :
        IsTensor(g, t) /\ ~(lastCall.env.fault = "null_handle" /\ lastCall.env.at = t)}

NotNull(t) == t # 0

RunEvents == {"input_accessor", "run", "output_accessor"}

(***************************************************************************)
(* C12: a finalize that succeeds on a target other than CL has, after      *)
(* registering the workload and before returning, called the accessor of   *)
(* every workload input once, run every task once in workload order,       *)
(* called the accessor of every workload output once, and then asked every *)
(* tensor that has a handle to release itself if unused; none of these     *)
(* calls precedes the registration.  A finalize that succeeds on CL ends   *)
(* with the registration and has run no task and called no input or        *)
(* output accessor.                                                        *)
(***************************************************************************)
C12_EagerFirstRun ==
    Finalizing /\ lastCall.err = NoError =>
        LET w == workloads[lastCall.id]
            runs == {k \in 1..Len(log) : log[k].e \in RunEvents}
        IN  /\ Cardinality(At(log, "register")) = 1
            /\ \A k \in runs : k > Max(At(log, "register"))
            /\ IF ForcedTarget(lastCall.target) # "CL"
               THEN /\ ArgsOf(RunLog, "input_accessor") = SelectSeq(w.inputs, NotNull)
                    /\ ArgsOf(RunLog, "run") = w.tasks
                    /\ ArgsOf(RunLog, "output_accessor") = SelectSeq(w.outputs, NotNull)
                    /\ ArgsOf(RunLog, "release_if_unused") = Ascending(WithHandle(TheGraph))
                    /\ \A r \in At(log, "release_if_unused") : \A k \in runs : k < r
               ELSE /\ runs = {}
                    /\ log[Len(log)].e = "register"

C12_Witness ==
    /\ Finalizing
    /\ lastCall.err = NoError
    /\ ForcedTarget(lastCall.target) = "NEON"
    /\ Cardinality(At(RunLog, "input_accessor")) = 2
    /\ Cardinality(At(RunLog, "run")) = 1
    /\ Cardinality(At(RunLog, "output_accessor")) = 2
    /\ log[Len(log)].e = "release_if_unused"

\* The tensors of g.
TensorsOf(g) == {t \in 1..Len(g.nodes) : IsTensor(g, t)}

(***************************************************************************)
(* C13: a finalize runs the pass manager at most once; it runs it exactly  *)
(* once when the id is not registered and every tensor's target has a      *)
(* backend, after create_tensor has been called for every tensor of the    *)
(* graph and before every validate_node and configure_node; a finalize     *)
(* rejected as a duplicate runs no pass.                                   *)
(***************************************************************************)
C13_PassesOnce ==
    lastCall.op = "finalize" =>
        LET g == TheGraph
            passes == At(log, "run_all")
        IN  /\ Cardinality(passes) <= 1
            /\ lastCall.found => passes = {}
            /\ ~lastCall.found /\ lastCall.env.fault # "no_backend" =>
                  Cardinality(passes) = 1
            /\ \A p \in passes :
                  /\ {log[k].i : k \in {j \in At(log, "create_tensor") : j < p}}
                        = TensorsOf(g)
                  /\ \A k \in At(log, "create_tensor") : k < p
                  /\ \A k \in At(log, "validate_node") \cup At(log, "configure_node") :
                        p < k

C13_Witness ==
    /\ Finalizing
    /\ Cardinality(At(log, "create_tensor")) >= 2
    /\ At(log, "run_all") # {}
    /\ At(log, "validate_node") # {}
    /\ At(log, "configure_node") # {}

(***************************************************************************)
(* C14: a finalize of a graph with a node that fails validation or whose   *)
(* target has no backend ends in the corresponding error with no node      *)
(* configured, no tensor allocated, no accessor called, no task prepared   *)
(* or run, the context not finalized and the id not registered.            *)
(***************************************************************************)
C14_RejectedBeforeCompile ==
    Finalizing /\ NodesWhere(TheGraph, Rejected) # {} =>
        /\ lastCall.err \in {ErrValidation, ErrNoBackend}
        /\ \A k \in 1..Len(log) : log[k].e \in {"create_tensor", "run_all", "validate_node"}
        /\ ~Registered(lastCall.id)

C14_Witness ==
    /\ Finalizing
    /\ lastCall.err = ErrValidation
    /\ Cardinality(At(log, "validate_node")) >= 2
    /\ NodesWhere(TheGraph, HasFunc) # {}

(***************************************************************************)
(* C15: a finalize, execute or invalidate on one id, whether it succeeds   *)
(* or fails, leaves the table entry of every other id as it was: none is   *)
(* added, removed or replaced.                                             *)
(***************************************************************************)
C15_OtherEntriesStep ==
    \A id \in GraphIds \ {lastCall'.id} : workloads'[id] = workloads[id]

C15_OtherEntries == [][C15_OtherEntriesStep]_vars

C15_Witness ==
    /\ lastCall.op = "finalize"
    /\ lastCall.err = ErrTaskRun
    /\ Registered(lastCall.id)
    /\ \E id \in GraphIds \ {lastCall.id} : Registered(id) /\ id \in invalidated

(***************************************************************************)
(* C16: a finalize finalizes the context at most once, and has done so     *)
(* before it registers the workload; ctx.finalize() follows the step that  *)
(* settles tensor storage (the transition manager is configured, or every  *)
(* tensor with a handle and bound edges has been allocated) and every      *)
(* prepare(), and precedes the registration and every run().  Hence the    *)
(* id is registered after a finalize only if that finalize sealed the      *)
(* context.                                                                *)
(***************************************************************************)
C16_SealedBeforeRegistered ==
    Finalizing =>
        LET g == TheGraph
            seals == At(log, "ctx_finalize")
        IN  /\ Cardinality(seals) <= 1
            /\ At(log, "register") # {} => seals # {}
            /\ Registered(lastCall.id) => seals # {}
            /\ \A s \in seals :
                  /\ \A k \in At(log, "register") \cup At(log, "run") : s < k
                  /\ \A k \in At(log, "allocate") \cup At(log, "prepare")
                         \cup At(log, "configure_transition_manager") : k < s
                  /\ IF ctx.use_transition_memory_manager
                     THEN At(log, "configure_transition_manager") # {}
                     ELSE {t \in WithHandle(g) : HasBoundEdges(g, t)}
                              \subseteq {log[k].i : k \in At(log, "allocate")}

C16_Witness ==
    /\ Finalizing
    /\ Registered(lastCall.id)
    /\ ~ctx.use_transition_memory_manager
    /\ At(log, "allocate") # {}
    /\ At(log, "ctx_finalize") # {}
    /\ At(log, "run") # {}

\* The tensors on which the last call invoked allocate().
AllocatedIn(s) == {s[k].i : k \in At(s, "allocate")}

\* With the transition manager in use, allocate_const_tensors is the only
\* step of finalize that allocates.
EagerOnly == Finalizing /\ ctx.use_transition_memory_manager

(***************************************************************************)
(* C17: allocate_const_tensors allocates only tensors with bound edges     *)
(* that are the output of a Const or Input node or the input of an Output  *)
(* node, and when it completes it has allocated every one of them.         *)
(***************************************************************************)
C17_EagerAllocation ==
    LET g == TheGraph
        eager == {t \in OutputsOf(g, IsConstOrInput) \cup InputsOf(g, IsOutput) :
                     HasBoundEdges(g, t)}
    IN  /\ EagerOnly => AllocatedIn(log) \subseteq eager
        /\ EagerOnly /\ At(log, "ctx_finalize") # {} => AllocatedIn(log) = eager
        /\ Finalizing /\ At(log, "ctx_finalize") # {} => eager \subseteq AllocatedIn(log)

C17_Witness ==
    /\ EagerOnly
    /\ lastCall.err = NoError
    /\ \E t \in AllocatedIn(log) : t \in OutputsOf(TheGraph, IsInput)
    /\ \E t \in AllocatedIn(log) :
          t \in InputsOf(TheGraph, IsOutput) \ OutputsOf(TheGraph, IsConstOrInput)

\* C17 as first stated: the step allocates no tensor other than the outputs
\* of Const and Input nodes.
C17_OnlyConstAndInput ==
    EagerOnly => AllocatedIn(log) \subseteq OutputsOf(TheGraph, IsConstOrInput)

(***************************************************************************)
(* C20: during one finalize allocate() is invoked at most once on any      *)
(* tensor.  Refuted by a tensor that an Input node writes and an Output    *)
(* node reads.                                                             *)
(***************************************************************************)
C20_AllocateOnce ==
    Finalizing =>
        \A t \in TensorsOf(TheGraph) : Cardinality(AtArg(log, "allocate", t)) <= 1

(***************************************************************************)
(* C18: a finalize on CL that goes on to seal the context has called       *)
(* prepare() on the tasks of the workload, once each and in workload       *)
(* order; every prepare() comes after every constant accessor, before the  *)
(* transition manager is configured, before allocate() of any tensor that  *)
(* allocate_const_tensors leaves out and before ctx.finalize(), and is     *)
(* directly followed by one release_if_unused on every tensor that has a   *)
(* handle, which are all the release_if_unused calls made before the       *)
(* registration.  A finalize on another target calls prepare() on no task. *)
(***************************************************************************)
C18_PrepareOnCL ==
    Finalizing =>
        LET g == TheGraph
            handles == Ascending(WithHandle(g))
            n == Len(handles)
            prepares == At(log, "prepare")
            eager == OutputsOf(g, IsConstOrInput) \cup InputsOf(g, IsOutput)
        IN  IF ForcedTarget(lastCall.target) = "CL"
            THEN /\ At(log, "ctx_finalize") # {} =>
                        ArgsOf(log, "prepare") = workloads[lastCall.id].tasks
                 /\ \A p \in prepares :
                        /\ \A k \in At(log, "const_accessor") : k < p
                        /\ \A k \in At(log, "configure_transition_manager")
                               \cup At(log, "ctx_finalize") : p < k
                        /\ \A k \in At(log, "allocate") : log[k].i \notin eager => p < k
                        /\ p + n <= Len(log)
                        /\ \A j \in 1..n : log[p + j] = Ev("release_if_unused", handles[j])
                 /\ Cardinality(At(BuildLog, "release_if_unused"))
                        = n * Cardinality(prepares)
            ELSE prepares = {}

C18_Witness ==
    /\ Finalizing
    /\ lastCall.err = NoError
    /\ ForcedTarget(lastCall.target) = "CL"
    /\ ~ctx.use_transition_memory_manager
    /\ Cardinality(At(log, "prepare")) = 2
    /\ At(log, "const_accessor") # {}
    /\ Cardinality(At(log, "release_if_unused")) >= 4

(***************************************************************************)
(* C19: every workload in the table has at least one task; a finalize of   *)
(* a graph whose nodes yield no task, none of them rejected, ends in       *)
(* "Could not configure all nodes!" with no tensor allocated, the context  *)
(* not finalized and the id not registered.                                *)
(***************************************************************************)
C19_NonEmptyWorkloads ==
    /\ \A id \in GraphIds : Registered(id) => Len(workloads[id].tasks) >= 1
    /\ /\ Finalizing
       /\ NodesWhere(TheGraph, HasFunc) = {}
       /\ NodesWhere(TheGraph, Rejected) = {}
       /\ lastCall.env.fault # "no_backend"
       => /\ lastCall.err = ErrNoTasks
          /\ At(log, "allocate") \cup At(log, "ctx_finalize") \cup At(log, "register") = {}
          /\ ~Registered(lastCall.id)

C19_Witness ==
    /\ Finalizing
    /\ lastCall.err = ErrNoTasks
    /\ ForcedTarget(lastCall.target) = "CL"
    /\ Cardinality(At(log, "configure_node")) >= 2
    /\ At(log, "allocate") = {}

(***************************************************************************)
(* C21: a finalize during which create_tensor returns a null handle for a  *)
(* tensor of the graph ends in "Couldn't create backend handle!" before    *)
(* the passes run, so that a finalize that reaches the passes has given    *)
(* every tensor a handle.  Refuted: the check after create_tensor tests    *)
(* the backend, which is known to be non-null, and the null handle is set. *)
(***************************************************************************)
C21_NullHandleRejected ==
    Finalizing /\ lastCall.env.fault = "null_handle" =>
        /\ lastCall.err = "Couldn't create backend handle!"
        /\ At(log, "run_all") = {}
        /\ At(log, "run_all") # {} => WithHandle(TheGraph) = TensorsOf(TheGraph)
====
